---------------------------- MODULE Spec2Model ----------------------------
(***************************************************************************)
(* sha256_simple of SHA-256.py as a state machine.                         *)
(*                                                                         *)
(* A Python int is unbounded, and its bitwise operators act on the         *)
(* infinite two's-complement expansion.  The words of SHA-256 do not fit   *)
(* a machine integer of the model checker, and the code builds values      *)
(* wider than 32 bits (create_words) and a negative one (~e), so a Python  *)
(* int is modelled as a record                                             *)
(*     [neg |-> sign, bits |-> <<b1, ..., bn>>]                            *)
(* with b1 the least significant bit; every bit above bn equals the sign   *)
(* (0 when neg is FALSE, 1 when it is TRUE), and bn differs from the sign  *)
(* (the representation is canonical, so = is equality of integers).        *)
(* Lengths and indices, which stay small, are naturals of the model.       *)
(*                                                                         *)
(* The model checker evaluates an operator's argument anew at each use,    *)
(* so an operator that reads an argument more than once first binds its    *)
(* value: The({F(v) : v \in {x}}) is F(x) with x evaluated once.           *)
(*                                                                         *)
(* A Python str is modelled as the sequence of its characters: a message   *)
(* as the sequence of its code points (ord(c) of each character c), a      *)
(* string of digits as a sequence of one-character strings.                *)
(***************************************************************************)
EXTENDS Integers, Sequences, FiniteSets, TLC

\* ------------------------------------------------------------ Python int

\* The element of a one-element set.
The(S) == CHOOSE r \in S : TRUE

Max(m, n) == IF m >= n THEN m ELSE n

\* The highest position of bits (a value already bound) that differs from
\* the sign extension above it, 0 when there is none.
TopBit(bits, fill) ==
    Len(bits) - (CHOOSE t \in 0..Len(bits) :
                    /\ t = Len(bits) \/ bits[Len(bits) - t] # fill
                    /\ \A k \in 0..(t - 1) : bits[Len(bits) - k] = fill)

\* The canonical Python int with the given sign and low bits.
PyInt(neg, bits) ==
    The({[neg |-> neg,
          bits |-> SubSeq(bv, 1, TopBit(bv, IF neg THEN 1 ELSE 0))] :
         bv \in {bits}})

\* Bit j (j >= 1, 1 the least significant) of the infinite expansion of x.
BitAt(x, j) ==
    IF j <= Len(x.bits) THEN x.bits[j] ELSE IF x.neg THEN 1 ELSE 0

One == PyInt(FALSE, <<1>>)

\* int(n) for a natural n < 2^30 of the model.
FromNat(n) == PyInt(FALSE, [j \in 1..30 |-> (n \div (2 ^ (j - 1))) % 2])

\* x & y
BitAnd(x, y) ==
    The({PyInt(xv.neg /\ yv.neg,
               [j \in 1..Max(Len(xv.bits), Len(yv.bits)) |->
                   BitAt(xv, j) * BitAt(yv, j)]) :
         xv \in {x}, yv \in {y}})

\* x | y
BitOr(x, y) ==
    The({PyInt(xv.neg \/ yv.neg,
               [j \in 1..Max(Len(xv.bits), Len(yv.bits)) |->
                   Max(BitAt(xv, j), BitAt(yv, j))]) :
         xv \in {x}, yv \in {y}})

\* x ^ y
BitXor(x, y) ==
    The({PyInt(xv.neg # yv.neg,
               [j \in 1..Max(Len(xv.bits), Len(yv.bits)) |->
                   (BitAt(xv, j) + BitAt(yv, j)) % 2]) :
         xv \in {x}, yv \in {y}})

\* ~x
Invert(x) ==
    The({PyInt(~xv.neg, [j \in 1..Len(xv.bits) |-> 1 - xv.bits[j]]) :
         xv \in {x}})

\* x >> n (n >= 0): floor division by 2^n
RShift(x, n) ==
    The({PyInt(xv.neg, SubSeq(xv.bits, n + 1, Len(xv.bits))) : xv \in {x}})

\* x << n (n >= 0): multiplication by 2^n
LShift(x, n) ==
    The({PyInt(xv.neg, [j \in 1..n |-> 0] \o xv.bits) : xv \in {x}})

\* Bits j..j+7 of the expansion of x, as a number.
Byte(x, j) ==
    BitAt(x, j) + 2 * BitAt(x, j + 1) + 4 * BitAt(x, j + 2)
    + 8 * BitAt(x, j + 3) + 16 * BitAt(x, j + 4) + 32 * BitAt(x, j + 5)
    + 64 * BitAt(x, j + 6) + 128 * BitAt(x, j + 7)

\* The sum of the expansions of x and y from position j up to at least
\* position m, eight bits at a time, with the carry passed on.
RECURSIVE AddBytes(_, _, _, _, _)
AddBytes(x, y, j, m, carry) ==
    IF j > m THEN <<>>
    ELSE The({[p \in 1..8 |-> (s \div (2 ^ (p - 1))) % 2]
                  \o AddBytes(x, y, j + 8, m, s \div 256) :
              s \in {Byte(x, j) + Byte(y, j) + carry}})

\* x + y: exact, the sum of two (n+1)-bit signed values fits n+2 bits, and
\* every higher bit of the sum repeats its sign.
Add(x, y) ==
    The({The({PyInt(s[Len(s)] = 1, s) :
              s \in {AddBytes(xv, yv, 1,
                              Max(Len(xv.bits), Len(yv.bits)) + 2, 0)}}) :
         xv \in {x}, yv \in {y}})

\* -x
Negate(x) == Add(Invert(x), One)

\* The literal 0xFFFFFFFF (lines 43, 71, 86-103)
Mask32 == PyInt(FALSE, [j \in 1..32 |-> 1])

\* ------------------------------------------------- formatting and parsing

BinChars == <<"0", "1">>

HexChars ==
    <<"0", "1", "2", "3", "4", "5", "6", "7",
      "8", "9", "a", "b", "c", "d", "e", "f">>

DigitVal(chars, ch1) == (CHOOSE v \in 1..Len(chars) : chars[v] = ch1) - 1

\* int(s, 2) of a non-empty string s of binary digits.
ParseBin(s) ==
    The({PyInt(FALSE, [j \in 1..Len(sv) |->
                          DigitVal(BinChars, sv[Len(sv) + 1 - j])]) :
         sv \in {s}})

\* int(s, 16) of a non-empty string s of lowercase hexadecimal digits.
ParseHex(s) ==
    The({PyInt(FALSE,
               [j \in 1..(4 * Len(sv)) |->
                   (DigitVal(HexChars, sv[Len(sv) - ((j - 1) \div 4)])
                       \div (2 ^ ((j - 1) % 4))) % 2]) :
         sv \in {s}})

\* The digits of x >= 0 in base 2^k (k = 1: binary, k = 4: hexadecimal),
\* most significant first, without leading zeros ("0" for zero).
Digits(x, k, chars) ==
    LET val(xv, p) ==
            IF k = 1 THEN BitAt(xv, p)
            ELSE BitAt(xv, 4 * p - 3) + 2 * BitAt(xv, 4 * p - 2)
                 + 4 * BitAt(xv, 4 * p - 1) + 8 * BitAt(xv, 4 * p)
    IN  The({[j \in 1..nd |-> chars[val(xv, nd + 1 - j) + 1]] :
             xv \in {x}, nd \in {Max(1, (Len(x.bits) + k - 1) \div k)}})

\* format(x, "0<width>b") and format(x, "0<width>x"): a '-' for a negative
\* x, then the digits of |x| zero-filled on the left up to the width; a
\* value with more digits than the width is written in full.
Format(x, width, k, chars) ==
    The({sign \o [j \in 1..Max(0, width - Len(sign) - Len(ds)) |-> "0"] \o ds :
         sign \in {IF x.neg THEN <<"-">> ELSE <<>>},
         ds \in {Digits(IF x.neg THEN Negate(x) ELSE x, k, chars)}})

FormatBin(x, width) == Format(x, width, 1, BinChars)

FormatHex(x, width) == Format(x, width, 4, HexChars)

\* parts[lo] \o ... \o parts[hi], by halves
RECURSIVE JoinRange(_, _, _)
JoinRange(parts, lo, hi) ==
    IF lo > hi THEN <<>>
    ELSE IF lo = hi THEN parts[lo]
    ELSE JoinRange(parts, lo, (lo + hi) \div 2)
             \o JoinRange(parts, ((lo + hi) \div 2) + 1, hi)

\* ''.join(parts)
Join(parts) == The({JoinRange(ps, 1, Len(ps)) : ps \in {parts}})

\* s[lo:hi] of Python for 0 <= lo <= hi: the end is clipped to len(s).
Slice(s, lo, hi) ==
    The({SubSeq(sv, lo + 1, IF hi <= Len(sv) THEN hi ELSE Len(sv)) :
         sv \in {s}})

\* seq[-k] of Python (k >= 1)
FromEnd(seq, k) == seq[Len(seq) + 1 - k]

\* ------------------------------------------------ the nested functions

\* to_binary (lines 7-9); msg is the sequence of ord(c)
to_binary(msg) == Join([j \in 1..Len(msg) |-> FormatBin(FromNat(msg[j]), 8)])

\* create_chunks with a range that stops one chunk early
create_chunks_short(padded_msg) ==
    [n \in 1..(((Len(padded_msg) + 511) \div 512) - 1) |->
        Slice(padded_msg, 512 * (n - 1), 512 * (n - 1) + 512)]

\* create_chunks (lines 21-22)
create_chunks(padded_msg) ==
    [n \in 1..((Len(padded_msg) + 511) \div 512) |->
        Slice(padded_msg, 512 * (n - 1), 512 * (n - 1) + 512)]

\* s0 with the rotations turned left
s0_of_rotl(x) ==
    BitXor(BitXor(BitOr(LShift(x, 7), RShift(x, 32 - 7)),
                  BitOr(LShift(x, 18), RShift(x, 32 - 18))),
           RShift(x, 3))

\* s0 of create_words (lines 30-32): the rotations are not masked
s0_of(x) ==
    BitXor(BitXor(BitOr(RShift(x, 7), LShift(x, 32 - 7)),
                  BitOr(RShift(x, 18), LShift(x, 32 - 18))),
           RShift(x, 3))

\* s1 with the amounts of s0
s1_of_as_s0(x) ==
    BitXor(BitXor(BitOr(RShift(x, 7), LShift(x, 32 - 7)),
                  BitOr(RShift(x, 18), LShift(x, 32 - 18))),
           RShift(x, 3))

\* s1 of create_words (lines 33-35)
s1_of(x) ==
    BitXor(BitXor(BitOr(RShift(x, 17), LShift(x, 32 - 17)),
                  BitOr(RShift(x, 19), LShift(x, 32 - 19))),
           RShift(x, 10))

\* The word one iteration of the while loop appends (lines 30-43)
NextWord(words) ==
    BitAnd(Add(Add(Add(FromEnd(words, 16), s0_of(FromEnd(words, 15))),
                   FromEnd(words, 7)),
               s1_of(FromEnd(words, 2))),
           Mask32)

\* The list of line 26
ChunkWords(chunk1) ==
    [n \in 1..16 |-> ParseBin(Slice(chunk1, 32 * (n - 1), 32 * (n - 1) + 32))]

\* rightrotate (lines 70-71)
rightrotate(x, n) == BitAnd(BitOr(RShift(x, n), LShift(x, 32 - n)), Mask32)

\* The 64 literals of K (lines 52-61)
KLiterals ==
    <<
      <<"4","2","8","a","2","f","9","8">>, <<"7","1","3","7","4","4","9","1">>,
      <<"b","5","c","0","f","b","c","f">>, <<"e","9","b","5","d","b","a","5">>,
      <<"3","9","5","6","c","2","5","b">>, <<"5","9","f","1","1","1","f","1">>,
      <<"9","2","3","f","8","2","a","4">>, <<"a","b","1","c","5","e","d","5">>,
      <<"d","8","0","7","a","a","9","8">>, <<"1","2","8","3","5","b","0","1">>,
      <<"2","4","3","1","8","5","b","e">>, <<"5","5","0","c","7","d","c","3">>,
      <<"7","2","b","e","5","d","7","4">>, <<"8","0","d","e","b","1","f","e">>,
      <<"9","b","d","c","0","6","a","7">>, <<"c","1","9","b","f","1","7","4">>,
      <<"e","4","9","b","6","9","c","1">>, <<"e","f","b","e","4","7","8","6">>,
      <<"0","f","c","1","9","d","c","6">>, <<"2","4","0","c","a","1","c","c">>,
      <<"2","d","e","9","2","c","6","f">>, <<"4","a","7","4","8","4","a","a">>,
      <<"5","c","b","0","a","9","d","c">>, <<"7","6","f","9","8","8","d","a">>,
      <<"9","8","3","e","5","1","5","2">>, <<"a","8","3","1","c","6","6","d">>,
      <<"b","0","0","3","2","7","c","8">>, <<"b","f","5","9","7","f","c","7">>,
      <<"c","6","e","0","0","b","f","3">>, <<"d","5","a","7","9","1","4","7">>,
      <<"0","6","c","a","6","3","5","1">>, <<"1","4","2","9","2","9","6","7">>,
      <<"2","7","b","7","0","a","8","5">>, <<"2","e","1","b","2","1","3","8">>,
      <<"4","d","2","c","6","d","f","c">>, <<"5","3","3","8","0","d","1","3">>,
      <<"6","5","0","a","7","3","5","4">>, <<"7","6","6","a","0","a","b","b">>,
      <<"8","1","c","2","c","9","2","e">>, <<"9","2","7","2","2","c","8","5">>,
      <<"a","2","b","f","e","8","a","1">>, <<"a","8","1","a","6","6","4","b">>,
      <<"c","2","4","b","8","b","7","0">>, <<"c","7","6","c","5","1","a","3">>,
      <<"d","1","9","2","e","8","1","9">>, <<"d","6","9","9","0","6","2","4">>,
      <<"f","4","0","e","3","5","8","5">>, <<"1","0","6","a","a","0","7","0">>,
      <<"1","9","a","4","c","1","1","6">>, <<"1","e","3","7","6","c","0","8">>,
      <<"2","7","4","8","7","7","4","c">>, <<"3","4","b","0","b","c","b","5">>,
      <<"3","9","1","c","0","c","b","3">>, <<"4","e","d","8","a","a","4","a">>,
      <<"5","b","9","c","c","a","4","f">>, <<"6","8","2","e","6","f","f","3">>,
      <<"7","4","8","f","8","2","e","e">>, <<"7","8","a","5","6","3","6","f">>,
      <<"8","4","c","8","7","8","1","4">>, <<"8","c","c","7","0","2","0","8">>,
      <<"9","0","b","e","f","f","f","a">>, <<"a","4","5","0","6","c","e","b">>,
      <<"b","e","f","9","a","3","f","7">>, <<"c","6","7","1","7","8","f","2">>
    >>

\* K as built by the list comprehension of lines 52-61
KTable == [n \in 1..Len(KLiterals) |-> ParseHex(KLiterals[n])]

\* The 8 literals of H (lines 65-67)
HLiterals ==
    <<
      <<"6","a","0","9","e","6","6","7">>, <<"b","b","6","7","a","e","8","5">>,
      <<"3","c","6","e","f","3","7","2">>, <<"a","5","4","f","f","5","3","a">>,
      <<"5","1","0","e","5","2","7","f">>, <<"9","b","0","5","6","8","8","c">>,
      <<"1","f","8","3","d","9","a","b">>, <<"5","b","e","0","c","d","1","9">>
    >>

\* H as built by the list comprehension of lines 65-67
H0 == [n \in 1..Len(HLiterals) |-> ParseHex(HLiterals[n])]

\* ----------------------------------------------- the compression round

\* S1 (line 84)
S1_of(x) ==
    BitXor(BitXor(rightrotate(x, 6), rightrotate(x, 11)), rightrotate(x, 25))

\* ch without the complement
ch_of_uncomplemented(x, y, z) == BitXor(BitAnd(x, y), BitAnd(x, z))

\* ch (line 85): ~x is the signed complement of Python
ch_of(x, y, z) == BitXor(BitAnd(x, y), BitAnd(Invert(x), z))

\* temp1 (line 86)
temp1_of(x, s1v, chv, k, wv) ==
    BitAnd(Add(Add(Add(Add(x, s1v), chv), k), wv), Mask32)

\* S0 (line 88)
S0_of(x) ==
    BitXor(BitXor(rightrotate(x, 2), rightrotate(x, 13)), rightrotate(x, 22))

\* maj (line 89)
maj_of(x, y, z) == BitXor(BitXor(BitAnd(x, y), BitAnd(x, z)), BitAnd(y, z))

\* temp2 without the mask
temp2_of_unmasked(s0v, majv) == Add(s0v, majv)

\* temp2 (line 90)
temp2_of(s0v, majv) == BitAnd(Add(s0v, majv), Mask32)

\* Line 103 binding the working variables instead of the sums
MixChunk_overwrite(hs, vs) == [n \in 1..Len(hs) |-> BitAnd(vs[n], Mask32)]

\* The list comprehension of line 103
MixChunk(hs, vs) == [n \in 1..Len(hs) |-> BitAnd(Add(hs[n], vs[n]), Mask32)]

\* Line 106 without the zero fill
HexDigest_unpadded(hs) == Join([n \in 1..Len(hs) |-> FormatHex(hs[n], 0)])

\* The join of line 106
HexDigest(hs) == Join([n \in 1..Len(hs) |-> FormatHex(hs[n], 8)])

\* ----------------------------------------------------------- the inputs

\* The number of calls of sha256_simple one behaviour makes.
MaxCalls == 3

\* The longest message of the padding specification.
MaxPadLen == 57

\* n times the character with code point cp
Rep(cp, n) == [j \in 1..n |-> cp]

\* "", "a", 56 times "a" (two blocks) and U+0100, a character above one
\* byte (one word of its digest starts with the digit 0)
Messages == {<<>>, <<97>>, Rep(97, 56), <<256>>}

\* "\x00", "a", "\xff" and U+0100, the first character above one byte
PadChars == {0, 97, 255, 256}

PadMessages == {Rep(cp, n) : cp \in PadChars, n \in 0..MaxPadLen}

\* ------------------------------------------------------------ the state

VARIABLES
    pc,        \* where the call stands: "idle" before the first call,
               \* "done" when the call has returned
    message,   \* the argument of the running call
    K, H,      \* the lists bound at lines 52 and 65, H rebound at line 103
    bin_msg, padded, chunks,   \* lines 74-76
    original_len, pad_bin_msg, \* original_len and bin_msg of pad_message
    ci,        \* how many chunks the for loop of line 78 has taken
    chunk, w,  \* lines 78-79
    words,     \* words of create_words
    a, b, c, d, e, f, g, h,    \* the working variables (line 80)
    i,         \* the index range(64) yields next (line 82)
    temp1, temp2,              \* lines 86 and 90
    result,    \* what the last call returned
    calls,     \* how many calls were made
    log,       \* history: <<message, digest>> of every call that returned,
               \* in the order of the calls
    folded     \* history: the hash states line 103 has bound in this call

frame == <<message, K, H, bin_msg, padded, chunks, original_len, pad_bin_msg,
           ci, chunk, w, words, a, b, c, d, e, f, g, h, i, temp1, temp2>>

vars == <<pc, frame, result, calls, log, folded>>

\* A name that is not bound (yet) in the running call's frame.
Unbound == "unbound"

NoFrame ==
    /\ message = Unbound /\ K = Unbound /\ H = Unbound
    /\ bin_msg = Unbound /\ padded = Unbound /\ chunks = Unbound
    /\ original_len = Unbound /\ pad_bin_msg = Unbound
    /\ ci = Unbound /\ chunk = Unbound /\ w = Unbound /\ words = Unbound
    /\ a = Unbound /\ b = Unbound /\ c = Unbound /\ d = Unbound
    /\ e = Unbound /\ f = Unbound /\ g = Unbound /\ h = Unbound
    /\ i = Unbound /\ temp1 = Unbound /\ temp2 = Unbound

Init ==
    /\ pc = "idle"
    /\ NoFrame
    /\ result = Unbound
    /\ calls = 0
    /\ log = <<>>
    /\ folded = <<>>

\* A call whose H is the list the call before left behind
Call_sharedH(m) ==
    /\ pc \in {"idle", "done"}
    /\ calls < MaxCalls
    /\ calls' = calls + 1
    /\ message' = m
    /\ K' = KTable
    /\ H' = (IF pc = "done" THEN H ELSE H0)
    /\ bin_msg' = Unbound /\ padded' = Unbound /\ chunks' = Unbound
    /\ original_len' = Unbound /\ pad_bin_msg' = Unbound
    /\ ci' = Unbound /\ chunk' = Unbound /\ w' = Unbound
    /\ words' = Unbound
    /\ a' = Unbound /\ b' = Unbound /\ c' = Unbound /\ d' = Unbound
    /\ e' = Unbound /\ f' = Unbound /\ g' = Unbound /\ h' = Unbound
    /\ i' = Unbound /\ temp1' = Unbound /\ temp2' = Unbound
    /\ folded' = <<>>
    /\ pc' = "to_binary"
    /\ UNCHANGED <<result, log>>

\* sha256_simple(m) is called: a new frame, in which lines 1-71 bind the
\* nested functions, K and H.  The frame of the call before is gone.
Call(m) ==
    /\ pc \in {"idle", "done"}
    /\ calls < MaxCalls
    /\ calls' = calls + 1
    /\ message' = m
    /\ K' = KTable
    /\ H' = H0
    /\ bin_msg' = Unbound /\ padded' = Unbound /\ chunks' = Unbound
    /\ original_len' = Unbound /\ pad_bin_msg' = Unbound
    /\ ci' = Unbound /\ chunk' = Unbound /\ w' = Unbound
    /\ words' = Unbound
    /\ a' = Unbound /\ b' = Unbound /\ c' = Unbound /\ d' = Unbound
    /\ e' = Unbound /\ f' = Unbound /\ g' = Unbound /\ h' = Unbound
    /\ i' = Unbound /\ temp1' = Unbound /\ temp2' = Unbound
    /\ folded' = <<>>
    /\ pc' = "to_binary"
    /\ UNCHANGED <<result, log>>

\* line 74
ToBinary ==
    /\ pc = "to_binary"
    /\ bin_msg' = to_binary(message)
    /\ pc' = "pad"
    /\ UNCHANGED <<message, K, H, padded, chunks, original_len, pad_bin_msg,
                   ci, chunk, w, words,
                   a, b, c, d, e, f, g, h, i, temp1, temp2,
                   result, calls, log, folded>>

\* line 75 calls pad_message: lines 13-14
PadEnter ==
    /\ pc = "pad"
    /\ original_len' = Len(bin_msg)
    /\ pad_bin_msg' = Append(bin_msg, "1")
    /\ pc' = "pad_loop"
    /\ UNCHANGED <<message, K, H, bin_msg, padded, chunks, ci, chunk, w, words,
                   a, b, c, d, e, f, g, h, i, temp1, temp2,
                   result, calls, log, folded>>

\* lines 15-16: one iteration of the while loop
PadZero ==
    /\ pc = "pad_loop"
    /\ (Len(pad_bin_msg) + 64) % 512 # 0
    /\ pad_bin_msg' = Append(pad_bin_msg, "0")
    /\ UNCHANGED <<pc, message, K, H, bin_msg, padded, chunks, original_len,
                   ci, chunk, w, words, a, b, c, d, e, f, g, h, i, temp1, temp2,
                   result, calls, log, folded>>

\* lines 15, 17-18: the loop ends, the length is appended, pad_message
\* returns to line 75 and its frame goes
PadReturn ==
    /\ pc = "pad_loop"
    /\ (Len(pad_bin_msg) + 64) % 512 = 0
    /\ padded' = pad_bin_msg \o FormatBin(FromNat(original_len), 64)
    /\ original_len' = Unbound
    /\ pad_bin_msg' = Unbound
    /\ pc' = "chunks"
    /\ UNCHANGED <<message, K, H, bin_msg, chunks, ci, chunk, w, words,
                   a, b, c, d, e, f, g, h, i, temp1, temp2,
                   result, calls, log, folded>>

\* line 76; the for loop of line 78 starts before the first chunk
Chunks ==
    /\ pc = "chunks"
    /\ chunks' = create_chunks(padded)
    /\ ci' = 0
    /\ pc' = "for"
    /\ UNCHANGED <<message, K, H, bin_msg, padded, original_len, pad_bin_msg,
                   chunk, w, words,
                   a, b, c, d, e, f, g, h, i, temp1, temp2,
                   result, calls, log, folded>>

\* line 78: the for loop takes the next chunk; line 79 calls create_words,
\* whose line 26 binds words
NextChunk ==
    /\ pc = "for"
    /\ ci < Len(chunks)
    /\ ci' = ci + 1
    /\ chunk' = chunks[ci + 1]
    /\ words' = ChunkWords(chunks[ci + 1])
    /\ pc' = "words_loop"
    /\ UNCHANGED <<message, K, H, bin_msg, padded, chunks, original_len,
                   pad_bin_msg, w, a, b, c, d, e, f, g, h, i, temp1, temp2,
                   result, calls, log, folded>>

\* lines 28-43: one iteration of the while loop of create_words
ExtendWords ==
    /\ pc = "words_loop"
    /\ Len(words) < 64
    /\ words' = Append(words, NextWord(words))
    /\ UNCHANGED <<pc, message, K, H, bin_msg, padded, chunks, original_len,
                   pad_bin_msg, ci, chunk, w, a, b, c, d, e, f, g, h, i,
                   temp1, temp2, result, calls, log, folded>>

\* lines 28, 45: the loop ends and create_words returns to line 79, its
\* frame goes; line 80 binds the working variables and line 82 starts the
\* round loop
WordsReturn ==
    /\ pc = "words_loop"
    /\ Len(words) >= 64
    /\ w' = words
    /\ words' = Unbound
    /\ a' = H[1] /\ b' = H[2] /\ c' = H[3] /\ d' = H[4]
    /\ e' = H[5] /\ f' = H[6] /\ g' = H[7] /\ h' = H[8]
    /\ i' = 0
    /\ pc' = "round"
    /\ UNCHANGED <<message, K, H, bin_msg, padded, chunks, original_len,
                   pad_bin_msg, ci, chunk, temp1, temp2,
                   result, calls, log, folded>>

\* lines 82-100: one iteration of the round loop (K[i], w[i] are 0-based)
Round ==
    /\ pc = "round"
    /\ i < 64
    /\ LET S1  == S1_of(e)
           ch  == ch_of(e, f, g)
           t1  == temp1_of(h, S1, ch, K[i + 1], w[i + 1])
           S0  == S0_of(a)
           maj == maj_of(a, b, c)
           t2  == temp2_of(S0, maj)
       IN  /\ temp1' = t1
           /\ temp2' = t2
           /\ h' = g
           /\ g' = f
           /\ f' = e
           /\ e' = BitAnd(Add(d, t1), Mask32)
           /\ d' = c
           /\ c' = b
           /\ b' = a
           /\ a' = BitAnd(Add(t1, t2), Mask32)
    /\ i' = i + 1
    /\ UNCHANGED <<pc, message, K, H, bin_msg, padded, chunks, original_len,
                   pad_bin_msg, ci, chunk, w, words,
                   result, calls, log, folded>>

\* line 103, once range(64) is exhausted
Fold ==
    /\ pc = "round"
    /\ i = 64
    /\ H' = MixChunk(H, <<a, b, c, d, e, f, g, h>>)
    /\ folded' = Append(folded, H')
    /\ pc' = "for"
    /\ UNCHANGED <<message, K, bin_msg, padded, chunks, original_len,
                   pad_bin_msg, ci, chunk, w, words,
                   a, b, c, d, e, f, g, h, i, temp1, temp2,
                   result, calls, log>>

\* line 106, once the chunks are exhausted: the call returns
Return ==
    /\ pc = "for"
    /\ ci = Len(chunks)
    /\ result' = HexDigest(H)
    /\ log' = Append(log, <<message, HexDigest(H)>>)
    /\ pc' = "done"
    /\ UNCHANGED <<frame, calls, folded>>

Next ==
    \/ \E m \in Messages : Call(m)
    \/ ToBinary
    \/ PadEnter
    \/ PadZero
    \/ PadReturn
    \/ Chunks
    \/ NextChunk
    \/ ExtendWords
    \/ WordsReturn
    \/ Round
    \/ Fold
    \/ Return

Spec == Init /\ [][Next]_vars

\* The preprocessing alone (lines 74-76), over messages of every length up
\* to MaxPadLen: the state is the one a call is in when it reaches line 74.
InitPad ==
    /\ pc = "to_binary"
    /\ message \in PadMessages
    /\ K = KTable
    /\ H = H0
    /\ bin_msg = Unbound /\ padded = Unbound /\ chunks = Unbound
    /\ original_len = Unbound /\ pad_bin_msg = Unbound
    /\ ci = Unbound /\ chunk = Unbound /\ w = Unbound /\ words = Unbound
    /\ a = Unbound /\ b = Unbound /\ c = Unbound /\ d = Unbound
    /\ e = Unbound /\ f = Unbound /\ g = Unbound /\ h = Unbound
    /\ i = Unbound /\ temp1 = Unbound /\ temp2 = Unbound
    /\ result = Unbound
    /\ calls = 1
    /\ log = <<>>
    /\ folded = <<>>

NextPad == ToBinary \/ PadEnter \/ PadZero \/ PadReturn \/ Chunks

SpecPad == InitPad /\ [][NextPad]_vars

\* ------------------------------------------------------ the 32-bit words
\* What the claims say of unsigned 32-bit values, stated on bit positions.

\* x is in 0..2^32-1
Word32(x) == ~x.neg /\ Len(x.bits) <= 32

\* x mod 2^32
Mod32(x) == The({PyInt(FALSE, [j \in 1..32 |-> BitAt(xv, j)]) : xv \in {x}})

\* rotr(x, n): the circular right rotation of the 32-bit value x
Rotr32(x, n) ==
    The({PyInt(FALSE, [j \in 1..32 |-> BitAt(xv, ((j - 1 + n) % 32) + 1)]) :
         xv \in {x}})

\* shr(x, n): the zero-filling right shift of the 32-bit value x
Shr32(x, n) ==
    The({PyInt(FALSE, [j \in 1..32 |->
                          IF j + n <= 32 THEN BitAt(xv, j + n) ELSE 0]) :
         xv \in {x}})

Xor32(x, y) ==
    The({PyInt(FALSE, [j \in 1..32 |->
                          IF BitAt(xv, j) = BitAt(yv, j) THEN 0 ELSE 1]) :
         xv \in {x}, yv \in {y}})

And32(x, y) ==
    The({PyInt(FALSE, [j \in 1..32 |->
                          IF BitAt(xv, j) = 1 /\ BitAt(yv, j) = 1
                          THEN 1 ELSE 0]) :
         xv \in {x}, yv \in {y}})

\* The 32-bit complement of x
Not32(x) ==
    The({PyInt(FALSE, [j \in 1..32 |-> 1 - BitAt(xv, j)]) : xv \in {x}})

\* (x + y) mod 2^32
Plus32(x, y) == Mod32(Add(x, y))

\* Where the names of the frame are bound.
InBlocks == pc \in {"for", "words_loop", "round", "done"}

HasSchedule ==
    \/ pc = "round"
    \/ pc \in {"for", "done"} /\ ci >= 1
    \/ pc = "words_loop" /\ ci >= 2

HasTemps ==
    \/ pc = "round" /\ (i >= 1 \/ ci >= 2)
    \/ pc \in {"for", "done"} /\ ci >= 1
    \/ pc = "words_loop" /\ ci >= 2

\* -------------------------------------------------------------- claims

DigestOfA ==
    <<
       "c","a","9","7","8","1","1","2","c","a","1","b","b","d","c","a",
       "f","a","c","2","3","1","b","3","9","a","2","3","d","c","4","d",
       "a","7","8","6","e","f","f","8","1","4","7","c","4","e","7","2",
       "b","9","8","0","7","7","8","5","a","f","e","e","4","8","b","b"
    >>

\* C1: sha256_simple("a"), whose message pads to a single block, returns
\* ca978112ca1bbdcafac231b39a23dc4da786eff8147c4e72b9807785afee48bb.
C1_DigestOfA ==
    /\ \A n \in 1..Len(log) : log[n][1] = <<97>> => log[n][2] = DigestOfA
    /\ (pc = "done" /\ message = <<97>>) =>
           (result = DigestOfA /\ Len(chunks) = 1)

C1_Witness ==
    pc = "done" /\ message = <<97>> /\ result = DigestOfA

\* C2: determinism and call independence.  After any sequence of earlier
\* calls, two calls with the same message return the same string; every
\* call starts from the hash state H0 with the constants K, in a frame
\* where nothing of an earlier call is bound, and K stays as it is.
C2_Determinism ==
    /\ \A m, n \in 1..Len(log) : log[m][1] = log[n][1] => log[m][2] = log[n][2]
    /\ pc # "idle" => K = KTable
    /\ (pc \in {"to_binary", "pad", "pad_loop", "chunks"}) => H = H0
    /\ (pc = "for" /\ ci = 0) => H = H0
    /\ pc = "to_binary" =>
           <<bin_msg, padded, chunks, original_len, pad_bin_msg, ci, chunk,
             w, words, a, b, c, d, e, f, g, h, i, temp1, temp2>>
             = [n \in 1..20 |-> Unbound]

\* The same message hashed before and after a call with another message.
C2_Witness ==
    /\ Len(log) = 3
    /\ log[1][1] = log[3][1]
    /\ log[2][1] # log[1][1]
    /\ log[1][2] = log[3][2]
    /\ log[2][2] # log[1][2]

\* Hexadecimal digit p (0 the least significant) of x, as a number.
Nibble(x, p) ==
    BitAt(x, 4 * p + 1) + 2 * BitAt(x, 4 * p + 2)
    + 4 * BitAt(x, 4 * p + 3) + 8 * BitAt(x, 4 * p + 4)

\* C3: for every message the call returns exactly 64 characters, each a
\* lowercase hexadecimal digit: 8 digits, most significant first, for each
\* of the 8 final hash-state words in the order H[0]..H[7].
C3_FixedLength ==
    pc = "done" =>
        /\ Len(result) = 64
        /\ \A n \in 1..64 :
               result[n] \in {"0", "1", "2", "3", "4", "5", "6", "7",
                              "8", "9", "a", "b", "c", "d", "e", "f"}
        /\ \A k \in 1..8 : \A j \in 1..8 :
               result[8 * (k - 1) + j] = HexChars[Nibble(H[k], 8 - j) + 1]
        /\ log[Len(log)] = <<message, result>>

\* A returned digest with a word whose first digit is 0, and the digests of
\* the empty message and of a message of two blocks returned before it.
C3_Witness ==
    /\ pc = "done"
    /\ \E k \in 1..8 : result[8 * (k - 1) + 1] = "0"
    /\ Len(log) = 3
    /\ log[1][1] = <<>>
    /\ Len(log[2][1]) = 56

\* C4: for every message of L characters the padded bit string has a
\* length that is the smallest multiple of 512 that is >= 8L + 65 (55
\* characters pad to 512 bits, 56 characters to 1024).
C4_PaddedLength ==
    pc = "chunks" =>
        Len(padded) = 512 * ((8 * Len(message) + 65 + 511) \div 512)

\* The number of '0' bits that C5 places after the '1' bit: the least k >= 0
\* with 8L + 1 + k congruent to 448 mod 512.
ZeroPad(L) == (448 + 512 - ((8 * L + 1) % 512)) % 512

\* C5: the padded bit string is the message bits (each character as exactly
\* 8 bits, most significant first, in message order), one '1' bit, the least
\* number k of '0' bits that brings the length to 448 mod 512, and 8L as a
\* 64-bit big-endian unsigned integer.
C5_PaddedLayout ==
    pc = "chunks" =>
        The({/\ Len(padded) = 8 * L + 1 + ZeroPad(L) + 64
             /\ \A n \in 1..L : \A j \in 1..8 :
                    padded[8 * (n - 1) + j]
                        = BinChars[((message[n] \div (2 ^ (8 - j))) % 2) + 1]
             /\ padded[8 * L + 1] = "1"
             /\ \A j \in 1..ZeroPad(L) : padded[8 * L + 1 + j] = "0"
             /\ \A j \in 1..64 :
                    padded[8 * L + 1 + ZeroPad(L) + j]
                        = (IF j < 34 THEN "0"
                           ELSE BinChars[(((8 * L) \div (2 ^ (64 - j))) % 2)
                                         + 1]) :
             L \in {Len(message)}})

\* C4 and C5 for the messages whose characters all fit one byte.
C4_OneByte ==
    (pc = "chunks" /\ \A n \in 1..Len(message) : message[n] <= 255) =>
        C4_PaddedLength

C5_OneByte ==
    (pc = "chunks" /\ \A n \in 1..Len(message) : message[n] <= 255) =>
        C5_PaddedLayout

\* Word n (1..16) of a block: its n-th 32-bit slice read as a big-endian
\* unsigned integer.
BigEndian32(blk, n) ==
    PyInt(FALSE, [j \in 1..32 |-> IF blk[32 * n + 1 - j] = "1" THEN 1 ELSE 0])

Sigma0(x) == Xor32(Xor32(Rotr32(x, 7), Rotr32(x, 18)), Shr32(x, 3))

Sigma1(x) == Xor32(Xor32(Rotr32(x, 17), Rotr32(x, 19)), Shr32(x, 10))

\* C6: create_words returns exactly 64 words; W[0..15] are the block's
\* sixteen 32-bit slices read as big-endian unsigned integers, and for i in
\* 16..63, W[i] = (W[i-16] + s0 + W[i-7] + s1) mod 2^32 with s0 and s1 built
\* from circular 32-bit rotations and zero-filling shifts, although the
\* code does not mask its rotations.  (w[n] here is W[n-1].)
C6_Schedule ==
    (pc = "round" /\ i = 0) =>
        /\ Len(w) = 64
        /\ \A n \in 1..16 : w[n] = BigEndian32(chunk, n)
        /\ \A n \in 17..64 :
               w[n] = Plus32(Plus32(Plus32(w[n - 16], Sigma0(w[n - 15])),
                                    w[n - 7]),
                             Sigma1(w[n - 2]))

\* The schedule of the second block of a message, with a word whose
\* unmasked rotation in s0 is wider than 32 bits.
C6_Witness ==
    /\ pc = "round" /\ i = 0 /\ ci = 2
    /\ \E n \in 2..49 : ~Word32(s0_of(w[n]))

\* The working variables one round yields from (a, ..., h) = v, the round
\* constant k and the schedule word wv, as C7 states them: ch with the
\* 32-bit complement, every right-hand side read before the round.
RoundOf(v, k, wv) ==
    The({The({<<Plus32(t1, t2), v[1], v[2], v[3],
                Plus32(v[4], t1), v[5], v[6], v[7], t1, t2>> :
              t1 \in {Plus32(Plus32(Plus32(Plus32(v[8], bigS1), chv), k), wv)},
              t2 \in {Plus32(bigS0, majv)}}) :
         bigS1 \in {Xor32(Xor32(Rotr32(v[5], 6), Rotr32(v[5], 11)),
                          Rotr32(v[5], 25))},
         bigS0 \in {Xor32(Xor32(Rotr32(v[1], 2), Rotr32(v[1], 13)),
                          Rotr32(v[1], 22))},
         majv \in {Xor32(Xor32(And32(v[1], v[2]), And32(v[1], v[3])),
                         And32(v[2], v[3]))},
         chv \in {Xor32(And32(v[5], v[6]), And32(Not32(v[5]), v[7]))}})

\* C7: round i of a block takes (a, ..., h) to h'=g, g'=f, f'=e,
\* e'=(d+temp1) mod 2^32, d'=c, c'=b, b'=a, a'=(temp1+temp2) mod 2^32, with
\* temp1 = (h + S1 + ch + K[i] + W[i]) mod 2^32 and temp2 = (S0 + maj) mod
\* 2^32; the code's ch, computed with the signed ~e, equals the 32-bit ch.
C7_Round ==
    [][(pc = "round" /\ pc' = "round") =>
          /\ i \in 0..63
          /\ i' = i + 1
          /\ <<a', b', c', d', e', f', g', h', temp1', temp2'>>
                 = RoundOf(<<a, b, c, d, e, f, g, h>>,
                           KTable[i + 1], w[i + 1])]_vars

\* The 64 rounds of a second block are done, and in the last one the signed
\* ~e (f now holds that e) was negative and not the 32-bit complement.
C7_Witness ==
    /\ pc = "round" /\ i = 64 /\ ci = 2
    /\ Invert(f).neg
    /\ Invert(f) # Not32(f)
    /\ ch_of(f, g, h) = Xor32(And32(f, g), And32(Not32(f), h))

\* C8: a block starts with a..h set to H[0]..H[7]; its 64 rounds leave H
\* unchanged; after round 63 H is replaced in one step by
\* H[k] = (H[k] + v[k]) mod 2^32 with v = (a, ..., h); no other step of a
\* call changes H, so H is never seen partially updated.
C8_BlockUpdate ==
    [][/\ (pc = "words_loop" /\ pc' = "round") =>
              (<<a', b', c', d', e', f', g', h'>> = H /\ H' = H)
       /\ (pc = "round" /\ pc' = "round") => H' = H
       /\ (pc = "round" /\ pc' = "for") =>
              /\ i = 64
              /\ H' = [k \in 1..8 |->
                          Plus32(H[k], <<a, b, c, d, e, f, g, h>>[k])]
       /\ (pc \notin {"idle", "done"} /\ ~(pc = "round" /\ pc' = "for")) =>
              H' = H]_vars

\* The second block of a message has been added to H, with a wrap-around.
C8_Witness ==
    /\ pc = "for" /\ ci = 2 /\ Len(folded) = 2
    /\ H = folded[2]
    /\ \E k \in 1..8 :
           ~Word32(Add(folded[1][k], <<a, b, c, d, e, f, g, h>>[k]))

\* The steps of a running call.
CallStep ==
    \/ ToBinary \/ PadEnter \/ PadZero \/ PadReturn \/ Chunks
    \/ NextChunk \/ ExtendWords \/ WordsReturn \/ Round \/ Fold \/ Return

\* C9: the padded message is split into N = len(P)/512 >= 1 blocks of 512
\* bits, in order, without overlap or remainder; the blocks are compressed
\* one after the other, the first from H0 and each later one from the hash
\* state the block before it produced; the digest is produced when all N
\* blocks are consumed, after exactly N compressions, and the call ends.
C9_BlockOrder ==
    InBlocks =>
        /\ Len(padded) % 512 = 0
        /\ Len(chunks) = Len(padded) \div 512
        /\ Len(chunks) >= 1
        /\ \A n \in 1..Len(chunks) :
               chunks[n] = SubSeq(padded, 512 * (n - 1) + 1, 512 * n)
        /\ ci \in 0..Len(chunks)
        /\ Len(folded) = (IF pc \in {"for", "done"} THEN ci ELSE ci - 1)
        /\ pc \in {"words_loop", "round"} => chunk = chunks[ci]
        /\ H = (IF Len(folded) = 0 THEN H0 ELSE folded[Len(folded)])
        /\ (pc = "round" /\ i = 0) => <<a, b, c, d, e, f, g, h>> = H
        /\ pc = "done" =>
               /\ ci = Len(chunks)
               /\ Len(folded) = Len(chunks)
               /\ result = HexDigest(folded[Len(chunks)])
               /\ ~ENABLED CallStep

\* A call on a message of two blocks has returned, after a call on the
\* empty message.
C9_Witness ==
    /\ pc = "done"
    /\ Len(chunks) = 2
    /\ Len(folded) = 2
    /\ Len(log) = 2
    /\ log[1][1] = <<>>

\* C10: in every state of a digest computation, every schedule word, every
\* working variable, temp1, temp2 and every hash-state word is an integer
\* in 0..2^32-1.
C10_Range ==
    /\ pc # "idle" => \A k \in 1..Len(H) : Word32(H[k])
    /\ pc = "words_loop" => \A n \in 1..Len(words) : Word32(words[n])
    /\ (InBlocks /\ HasSchedule) =>
           /\ \A n \in 1..Len(w) : Word32(w[n])
           /\ \A k \in 1..8 : Word32(<<a, b, c, d, e, f, g, h>>[k])
    /\ (InBlocks /\ HasTemps) => (Word32(temp1) /\ Word32(temp2))

\* A round in which the sum that makes temp1 passed 2^32 - 1 before it was
\* masked, in the second block of a message.
C10_Witness ==
    /\ pc = "round" /\ i \in 1..63 /\ ci = 2
    /\ ~Word32(Add(Add(Add(Add(h, S1_of(e)), ch_of(e, f, g)), K[i + 1]),
                   w[i + 1]))
    /\ Word32(temp1) /\ Word32(temp2)

=============================================================================
